---- MODULE Spec2Model ----
(***************************************************************************)
(* goreader: the markup-to-grid rendering engine of parse.go.              *)
(*                                                                         *)
(* A string is a sequence of runes, a rune a one-character string.         *)
(***************************************************************************)
EXTENDS Integers, Sequences, FiniteSets, TLC

VARIABLES
    tagStack,    \* parser.tagStack   []atom.Atom
    tableStack,  \* parser.tableStack [][][]string
    doc,         \* parser.doc        cellbuf
    pc,          \* "run": in the loop of parse; "done": parseText returned;
                 \* "panic": a Go run-time panic left parse
    ret,         \* what parseText returned: the document and the error
    last,        \* history: the last token and what handling it did
    open,        \* history: the elements of the markup that are open
    starts,      \* history: the start-tag tokens not yet matched by an end tag
    nested,      \* history: TRUE while every end tag matched the last unmatched start tag
    markup,      \* history: the outermost table of the markup, as the tokens spell it
    ntok,        \* history: number of tokens read from the tokenizer
    scen         \* history: how many tokens of Scenario the tokens read so far are
                 \* (all of them, in order), or -1 when they are not a prefix of it

vars == <<tagStack, tableStack, doc, pc, ret, last, open, starts, nested, markup, ntok, scen>>

----------------------------------------------------------------------------
(* Program constants *)

DocWidth == 80          \* cellbuf{width: 80}
GrowStep == 1024        \* make([]termbox.Cell, 1024)
ParIndent == 2          \* p.doc.col += 2
ImgWidth == 80          \* w := 80 in imageToText

(* termbox attributes *)
ColorDefault == 0
ColorRed == 2
ColorYellow == 4
ColorBlue == 5
ColorMagenta == 6
ColorCyan == 7
AttrBold == 512

(* Bounds of the model *)
MaxTokens == 5          \* Spec: tokens the tokenizer delivers before its error token
MaxWrapTokens == 3      \* SpecWrap: the same
MaxOver == 1            \* runes by which the longest word exceeds the width
MaxTableTokens == 8     \* SpecTable: tokens the tokenizer delivers before its error token
MaxCellCalls == 3       \* SpecCells: calls of setCell
MaxImageTokens == 4     \* SpecImage: tokens the tokenizer delivers before its error token
MaxParaTokens == 6      \* SpecPara: the same
MaxBlockTokens == 4     \* SpecBlock: the same

----------------------------------------------------------------------------
(* Runes and strings *)

SP == " "
NL == "\n"

Rep(r, n) == [i \in 1..n |-> r]

IsSpace(r) == r \in {" ", "\n", "\t", "\r"}

RECURSIVE TrimLeft(_)
TrimLeft(s) ==
    IF s # <<>> /\ IsSpace(Head(s)) THEN TrimLeft(Tail(s)) ELSE s

RECURSIVE TrimRight(_)
TrimRight(s) ==
    IF s # <<>> /\ IsSpace(s[Len(s)]) THEN TrimRight(SubSeq(s, 1, Len(s) - 1)) ELSE s

\* strings.TrimSpace
TrimSpace(s) == TrimRight(TrimLeft(s))

RECURSIVE BitOr(_, _)
\* a | b on non-negative integers
BitOr(a, b) ==
    IF a = 0 THEN b
    ELSE IF b = 0 THEN a
    ELSE (IF a % 2 = 1 \/ b % 2 = 1 THEN 1 ELSE 0) + 2 * BitOr(a \div 2, b \div 2)

----------------------------------------------------------------------------
(* cellbuf *)

\* The zero value of termbox.Cell
ZeroCell == [Ch |-> "", Fg |-> 0, Bg |-> 0]

\* A []termbox.Cell: its length and the cells that have been assigned; every
\* other index below the length holds the zero cell that make() put there.
NoCells == [len |-> 0, at |-> <<>>]

\* c.cells[i] for 0 <= i < len(c.cells)
CellAt(cells, i) == IF i \in DOMAIN cells.at THEN cells.at[i] ELSE ZeroCell

\* cellbuf{width: 80}
NewDoc == [cells |-> NoCells, width |-> DocWidth, lmargin |-> 0,
           col |-> 0, row |-> 0, fg |-> 0, bg |-> 0]

RECURSIVE Grow(_, _)
\* for y*c.width+x >= len(c.cells) { c.cells = append(c.cells, make(..., 1024)...) }
Grow(cells, idx) ==
    IF idx >= cells.len THEN Grow([cells EXCEPT !.len = cells.len + GrowStep], idx) ELSE cells

\* GrowCells with `if` in the place of `for`: one step of growth at most
GrowOnce(cells, idx) ==
    IF idx >= cells.len THEN [cells EXCEPT !.len = cells.len + GrowStep] ELSE cells

\* The slice after the growth loop of setCell
GrowCells(cells, idx) == Grow(cells, idx)

\* setCell: the document after c.cells[y*c.width+x] = Cell{ch, fg, bg}; field
\* oob is TRUE when that index is outside the slice (Go panics there).
SetCell(c, x, y, ch, fg, bg) ==
    LET idx == y * c.width + x
        grown == GrowCells(c.cells, idx)
    IN  IF idx < 0 \/ idx >= grown.len
        THEN [doc |-> [c EXCEPT !.cells = grown], oob |-> TRUE]
        ELSE [doc |-> [c EXCEPT !.cells =
                          [grown EXCEPT !.at = (idx :> [Ch |-> ch, Fg |-> fg, Bg |-> bg]) @@ @]],
              oob |-> FALSE]

\* the first loop of scanWords: where it stops, the index (from 0) of the
\* first rune at or after start that is no space, or len(data)
SkipSpaces(data, start) ==
    CHOOSE i \in start..Len(data) :
        /\ \A k \in start..(i - 1) : data[k + 1] = SP
        /\ (i = Len(data) \/ data[i + 1] # SP)

\* the second loop of scanWords: where it stops, the index (from 0) of the
\* first space at or after i, or len(data) when there is none
ScanToSpace(data, i) ==
    CHOOSE j \in i..Len(data) :
        /\ \A k \in i..(j - 1) : data[k + 1] # SP
        /\ (j = Len(data) \/ data[j + 1] = SP)

\* scanWords(data, atEOF): advance, token, and whether a token is returned
ScanWords(data, atEOF) ==
    LET start == SkipSpaces(data, 0)
        i == ScanToSpace(data, start)
    IN  IF i < Len(data)
        THEN [advance |-> i + 1, token |-> SubSeq(data, start + 1, i), has |-> TRUE]
        ELSE IF atEOF /\ Len(data) > start
        THEN [advance |-> Len(data), token |-> SubSeq(data, start + 1, Len(data)), has |-> TRUE]
        ELSE [advance |-> start, token |-> <<>>, has |-> FALSE]

RECURSIVE ScanAll(_)
\* the words scanner.Scan() yields for the whole string, in order
ScanAll(data) ==
    LET r == ScanWords(data, TRUE)
    IN  IF r.has
        THEN <<r.token>> \o ScanAll(SubSeq(data, r.advance + 1, Len(data)))
        ELSE <<>>

\* the foreground one tag adds in style
TagAttr(tag) ==
    CASE tag \in {"b", "strong", "em"} -> AttrBold
      [] tag = "i" -> ColorYellow
      [] tag = "title" -> ColorRed
      [] tag = "h1" -> ColorMagenta
      [] tag = "h2" -> ColorBlue
      [] tag \in {"h3", "h4", "h5", "h6"} -> ColorCyan
      [] OTHER -> 0

RECURSIVE StyleFgAssign(_, _)
\* StyleFg with `=` in the place of `|=`: the last styling tag wins
StyleFgAssign(tags, fg) ==
    IF tags = <<>> THEN fg
    ELSE StyleFgAssign(Tail(tags), IF TagAttr(Head(tags)) = 0 THEN fg ELSE TagAttr(Head(tags)))

RECURSIVE StyleFg(_, _)
\* the loop of style: fg after the tags from position i on
StyleFg(tags, fg) ==
    IF tags = <<>> THEN fg ELSE StyleFg(Tail(tags), BitOr(fg, TagAttr(Head(tags))))

\* Style without the loop: the default foreground whatever the tags
StyleDefault(c, tags) == [c EXCEPT !.fg = ColorDefault]

\* cellbuf.style
Style(c, tags) == [c EXCEPT !.fg = StyleFg(tags, ColorDefault)]

\* the state threaded through the appends: the document, the cells written so
\* far (in order), the words appendText has placed (each with the cursor it
\* met and the positions of its writes in `writes`), and whether an index was
\* out of range
Acc(c) == [doc |-> c, oob |-> FALSE, writes |-> <<>>, words |-> <<>>]

\* one rune of the loops of appendText and appendRaw (nothing runs after a
\* panic)
PutRune(a, r) ==
    IF a.oob THEN a
    ELSE IF r = NL
    THEN [a EXCEPT !.doc.row = a.doc.row + 1, !.doc.col = a.doc.lmargin]
    ELSE LET s == SetCell(a.doc, a.doc.col, a.doc.row, r, a.doc.fg, a.doc.bg)
         IN  [a EXCEPT !.doc = [s.doc EXCEPT !.col = a.doc.col + 1],
                        !.writes = Append(a.writes, [fg |-> a.doc.fg, x |-> a.doc.col,
                                                     y |-> a.doc.row, ch |-> r]),
                        !.oob = a.oob \/ s.oob]

RECURSIVE PutRunes(_, _)
\* for _, r := range s: PutRune for each rune in order (the runes of the first
\* half, then those of the second half)
PutRunes(a, s) ==
    IF s = <<>> THEN a
    ELSE IF Len(s) = 1 THEN PutRune(a, s[1])
    ELSE LET m == PutRunes(a, SubSeq(s, 1, Len(s) \div 2))
         IN  IF m.oob THEN m ELSE PutRunes(m, SubSeq(s, Len(s) \div 2 + 1, Len(s)))

\* WordWraps off by one: a word may end one column past the last
WordWrapsLate(c, word) == Len(word) > c.width - c.col + 1

\* WordWraps for words that fit a row only: an overlong word stays where it is
WordWrapsFitting(c, word) == Len(word) > c.width - c.col /\ Len(word) <= c.width

\* if len(word) > c.width-c.col
WordWraps(c, word) == Len(word) > c.width - c.col

\* the body of the scanner loop of appendText, for one word
PutWord(a, word) ==
    LET a1 == IF WordWraps(a.doc, word)
              THEN [a EXCEPT !.doc.row = a.doc.row + 1, !.doc.col = a.doc.lmargin]
              ELSE a
        a2 == PutRunes(a1, word)
        a3 == [a2 EXCEPT !.words = Append(a.words, [col |-> a.doc.col, row |-> a.doc.row,
                                                    word |-> word,
                                                    from |-> Len(a.writes) + 1,
                                                    to |-> Len(a2.writes)])]
    IN  IF a2.oob THEN a2
        ELSE IF a3.doc.col # a3.doc.lmargin THEN [a3 EXCEPT !.doc.col = a3.doc.col + 1]
        ELSE a3

RECURSIVE PutWords(_, _)
\* for scanner.Scan(): PutWord for each word in order
PutWords(a, words) ==
    IF words = <<>> THEN a
    ELSE IF Len(words) = 1 THEN PutWord(a, words[1])
    ELSE LET m == PutWords(a, SubSeq(words, 1, Len(words) \div 2))
         IN  IF m.oob THEN m ELSE PutWords(m, SubSeq(words, Len(words) \div 2 + 1, Len(words)))

\* if c.col < c.lmargin { c.col = c.lmargin }
SnapToMargin(a) ==
    IF a.doc.col < a.doc.lmargin THEN [a EXCEPT !.doc.col = a.doc.lmargin] ELSE a

\* cellbuf.appendText
DocAppendText(a, str) == PutWords(SnapToMargin(a), ScanAll(str))

\* cellbuf.appendRaw
DocAppendRaw(a, str) == PutRunes(SnapToMargin(a), str)

----------------------------------------------------------------------------
(* Tokens of html.Tokenizer *)

StartTagToken(a, attr) == [data |-> <<>>, attr |-> attr, type |-> "StartTag", atom |-> a, err |-> "nil"]
SelfClosingTagToken(a, attr) == [data |-> <<>>, attr |-> attr, type |-> "SelfClosingTag", atom |-> a, err |-> "nil"]
EndTagToken(a) == [data |-> <<>>, attr |-> <<>>, type |-> "EndTag", atom |-> a, err |-> "nil"]
TextToken(s) == [data |-> s, attr |-> <<>>, type |-> "Text", atom |-> "", err |-> "nil"]
ErrorToken(e) == [data |-> <<>>, attr |-> <<>>, type |-> "Error", atom |-> "", err |-> e]

\* io.EOF
EOF == "EOF"

----------------------------------------------------------------------------
(* Images *)

\* []rune("MND8OZ$7I?+=~:,..")
charGradient ==
    <<"M", "N", "D", "8", "O", "Z", "$", "7", "I", "?", "+", "=", "~", ":", ",", ".", ".">>

\* GlyphPos with 256 levels in the place of 255
GlyphPosBy256(lum) == ((Len(charGradient) - 1) * lum) \div 256

\* pos := (len(charGradient) - 1) * int(y) / 255
GlyphPos(lum) == ((Len(charGradient) - 1) * lum) \div 255

\* the glyph of one pixel; Go panics when pos is no index of charGradient
Glyph(lum) == charGradient[GlyphPos(lum) + 1]

\* h := (bounds.Max.Y * w) / (bounds.Max.X * 2)
ImgHeight(item) == (item.maxY * ImgWidth) \div (item.maxX * 2)

\* the inner loop of imageToText: one row of glyphs and its newline
GlyphRow(item, y) == [x \in 1..ImgWidth |-> Glyph(item.gray[x - 1, y])] \o <<NL>>

RECURSIVE GlyphRows(_, _, _)
GlyphRows(item, y, h) == IF y < h THEN GlyphRow(item, y) \o GlyphRows(item, y + 1, h) ELSE <<>>

\* ImageToText with a placeholder in the place of the empty string
ImageToTextPlaceholder(item) ==
    IF ~item.opens \/ ~item.decodes THEN <<"?">> ELSE GlyphRows(item, 0, ImgHeight(item))

\* imageToText
ImageToText(item) ==
    IF ~item.opens THEN <<>>
    ELSE IF ~item.decodes THEN <<>>
    ELSE GlyphRows(item, 0, ImgHeight(item))

----------------------------------------------------------------------------
(* The tabular formatter *)

ColCount(rows) ==
    IF rows = <<>> THEN 0
    ELSE CHOOSE n \in {Len(rows[i]) : i \in 1..Len(rows)} :
             \A i \in 1..Len(rows) : Len(rows[i]) <= n

CellOf(row, j) == IF j <= Len(row) THEN row[j] ELSE <<>>

ColWidth(rows, j) ==
    CHOOSE n \in {Len(CellOf(rows[i], j)) : i \in 1..Len(rows)} :
        \A i \in 1..Len(rows) : Len(CellOf(rows[i], j)) <= n

RECURSIVE RuleLine(_, _)
RuleLine(rows, j) ==
    IF j > ColCount(rows) THEN <<"+", NL>>
    ELSE <<"+">> \o Rep("-", ColWidth(rows, j) + 2) \o RuleLine(rows, j + 1)

RECURSIVE RowLine(_, _, _)
RowLine(rows, row, j) ==
    IF j > ColCount(rows) THEN <<"|", NL>>
    ELSE <<"|", SP>> \o CellOf(row, j)
         \o Rep(SP, ColWidth(rows, j) - Len(CellOf(row, j)) + 1) \o RowLine(rows, row, j + 1)

RECURSIVE RenderRows(_, _)
RenderRows(rows, i) ==
    IF i > Len(rows) THEN <<>>
    ELSE RowLine(rows, rows[i], 1) \o RuleLine(rows, 1) \o RenderRows(rows, i + 1)

\* table.AppendBulk(rows); SetBorder(true); SetRowLine(true); Render(): the
\* bordered block, one text line per row and a rule line around each
Render(rows) == RuleLine(rows, 1) \o RenderRows(rows, 1)

----------------------------------------------------------------------------
(* parser *)

\* the parser while one token is handled: its fields, the writes of the
\* append calls, whether Go panicked, the rows handed to the formatter and
\* the calls of imageToText (the resource and the block it returned)
Parser(ts, tbs, d) ==
    [tagStack |-> ts, tableStack |-> tbs, a |-> Acc(d), panic |-> FALSE, handed |-> <<>>,
     images |-> <<>>]

\* getTableCell() != nil
HasTableCell(tbs) ==
    /\ Len(tbs) > 0
    /\ Len(tbs[Len(tbs)]) > 0
    /\ Len(tbs[Len(tbs)][Len(tbs[Len(tbs)])]) > 0

\* AddToTableCell without strings.TrimSpace
AddToTableCellUntrimmed(tbs, str) ==
    LET tableI == Len(tbs)
        rowI == Len(tbs[tableI])
        colI == Len(tbs[tableI][rowI])
    IN  [tbs EXCEPT ![tableI][rowI][colI] = @ \o str]

\* *cell += strings.TrimSpace(str), cell the pointer getTableCell returns
AddToTableCell(tbs, str) ==
    LET tableI == Len(tbs)
        rowI == Len(tbs[tableI])
        colI == Len(tbs[tableI][rowI])
    IN  [tbs EXCEPT ![tableI][rowI][colI] = @ \o TrimSpace(str)]

\* ParserAppendText without the test for a focused cell
ParserAppendTextToGrid(p, str, raw) ==
    IF p.panic THEN p
    ELSE IF raw
    THEN [p EXCEPT !.a = DocAppendRaw(p.a, str)]
    ELSE [p EXCEPT !.a = DocAppendText(p.a, str)]

\* parser.appendText
ParserAppendText(p, str, raw) ==
    IF p.panic THEN p
    ELSE IF HasTableCell(p.tableStack)
    THEN [p EXCEPT !.tableStack = AddToTableCell(p.tableStack, str)]
    ELSE IF raw
    THEN [p EXCEPT !.a = DocAppendRaw(p.a, str)]
    ELSE [p EXCEPT !.a = DocAppendText(p.a, str)]

\* "Alt text: "
AltPrefix == <<"A", "l", "t", SP, "t", "e", "x", "t", ":", SP>>

RECURSIVE FindItem(_, _, _)
\* for _, item := range p.items { if item.HREF == a.Val { ...; break } }
FindItem(items, val, i) ==
    IF i > Len(items) THEN 0
    ELSE IF items[i].HREF = val THEN i
    ELSE FindItem(items, val, i + 1)

\* SkipsImage with the test left out: an image is converted inside a cell too
SkipsImageNever(tbs) == FALSE

\* if cell := p.getTableCell(); cell != nil { break }
SkipsImage(tbs) == HasTableCell(tbs)

\* one attribute of an img tag
ImgAttr(p, items, a) ==
    CASE a.key = "alt" -> ParserAppendText(p, AltPrefix \o a.val \o <<NL>>, FALSE)
      [] a.key = "src" ->
           IF SkipsImage(p.tableStack) THEN p
           ELSE LET i == FindItem(items, a.val, 1)
                IN  IF i = 0 THEN p
                    ELSE ParserAppendText(
                             [p EXCEPT !.images = Append(@, [item |-> i,
                                                            block |-> ImageToText(items[i])])],
                             ImageToText(items[i]), TRUE)
      [] OTHER -> p

RECURSIVE ImgAttrs(_, _, _)
ImgAttrs(p, items, attr) ==
    IF attr = <<>> THEN p ELSE ImgAttrs(ImgAttr(p, items, Head(attr)), items, Tail(attr))

\* case atom.Tr
StartRow(p) ==
    LET tableI == Len(p.tableStack) - 1
    IN  IF tableI < 0 THEN [p EXCEPT !.panic = TRUE]
        ELSE [p EXCEPT !.tableStack[tableI + 1] = Append(@, <<>>)]

\* case atom.Td
StartCell(p) ==
    LET tableI == Len(p.tableStack) - 1
    IN  IF tableI < 0 THEN [p EXCEPT !.panic = TRUE]
        ELSE LET rowI == Len(p.tableStack[tableI + 1]) - 1
             IN  IF rowI < 0 THEN [p EXCEPT !.panic = TRUE]
                 ELSE [p EXCEPT !.tableStack[tableI + 1][rowI + 1] = Append(@, <<>>)]

\* StartRule without p.doc.col = 0: the line starts at the cursor
StartRuleAtCursor(p) == ParserAppendText(p, Rep("-", p.a.doc.width), TRUE)

\* case atom.Hr
StartRule(p) == ParserAppendText([p EXCEPT !.a.doc.col = 0], Rep("-", p.a.doc.width), TRUE)

\* parser.handleStartTag
HandleStartTag(p, items, token) ==
    CASE token.atom = "img" -> ImgAttrs(p, items, token.attr)
      [] token.atom = "br" -> ParserAppendText(p, <<NL>>, TRUE)
      [] token.atom = "p" -> [p EXCEPT !.a.doc.col = @ + ParIndent]
      [] token.atom = "hr" -> StartRule(p)
      [] token.atom = "table" -> [p EXCEPT !.tableStack = Append(@, <<>>)]
      [] token.atom = "tr" -> StartRow(p)
      [] token.atom = "td" -> StartCell(p)
      [] OTHER -> p

\* EndTable with the block delivered before the frame is popped
EndTableDeliverFirst(p) ==
    LET tableI == Len(p.tableStack) - 1
    IN  IF tableI < 0 THEN [p EXCEPT !.panic = TRUE]
        ELSE LET rows == p.tableStack[tableI + 1]
                 p1 == ParserAppendText(ParserAppendText(p, <<NL>>, TRUE), Render(rows), TRUE)
             IN  [p1 EXCEPT !.handed = Append(@, rows),
                            !.tableStack = SubSeq(@, 1, tableI)]

\* case atom.Table of handleEndTag
EndTable(p) ==
    LET tableI == Len(p.tableStack) - 1
    IN  IF tableI < 0 THEN [p EXCEPT !.panic = TRUE]
        ELSE LET rows == p.tableStack[tableI + 1]
                 p1 == [p EXCEPT !.handed = Append(@, rows),
                                 !.tableStack = SubSeq(@, 1, tableI)]
                 p2 == ParserAppendText(p1, <<NL>>, TRUE)
             IN  ParserAppendText(p2, Render(rows), TRUE)

\* parser.handleEndTag
HandleEndTag(p, token) ==
    IF token.atom = "table" THEN EndTable(p) ELSE p

\* parser.handleText
HandleText(p, token) ==
    IF Len(p.tagStack) > 0 /\ p.tagStack[Len(p.tagStack)] = "style"
    THEN p
    ELSE ParserAppendText([p EXCEPT !.a.doc = Style(@, p.tagStack)], token.data, FALSE)

\* p.tagStack = append(p.tagStack, token.DataAtom)
PushTag(p, token) == [p EXCEPT !.tagStack = Append(@, token.atom)]

\* p.tagStack = p.tagStack[:len(p.tagStack)-1]
PopTag(p) ==
    IF p.panic THEN p
    ELSE IF Len(p.tagStack) - 1 < 0 THEN [p EXCEPT !.panic = TRUE]
    ELSE [p EXCEPT !.tagStack = SubSeq(@, 1, Len(@) - 1)]

\* Dispatch with the two start cases merged: a self-closing token pushes too
DispatchPushAll(p, items, token) ==
    CASE token.type \in {"StartTag", "SelfClosingTag"} ->
             HandleStartTag(PushTag(p, token), items, token)
      [] token.type = "Text" -> HandleText(p, token)
      [] token.type = "EndTag" -> PopTag(HandleEndTag(p, token))

\* the switch of parse for a token that is no error token
Dispatch(p, items, token) ==
    CASE token.type = "StartTag" -> HandleStartTag(PushTag(p, token), items, token)
      [] token.type = "SelfClosingTag" -> HandleStartTag(p, items, token)
      [] token.type = "Text" -> HandleText(p, token)
      [] token.type = "EndTag" -> PopTag(HandleEndTag(p, token))

----------------------------------------------------------------------------
(* parse and parseText, one token at a time *)

\* what parse returns for the error of an error token
ParseErr(err) == IF err = EOF THEN "nil" ELSE err

\* ParseTextResult with the local doc, of which p.doc is a copy, returned
ParseTextResultLocal(d, err) == [doc |-> NewDoc, err |-> err]

\* what parseText returns: p.doc and the error of parse
ParseTextResult(d, err) == [doc |-> d, err |-> err]

\* elements that have no end tag
Void == {"br", "hr", "img"}

RECURSIVE CloseElem(_, _)
\* the open elements without the innermost one named a
CloseElem(elems, a) ==
    IF elems = <<>> THEN <<>>
    ELSE IF elems[Len(elems)] = a THEN SubSeq(elems, 1, Len(elems) - 1)
    ELSE Append(CloseElem(SubSeq(elems, 1, Len(elems) - 1), a), elems[Len(elems)])

NoToken == [data |-> <<>>, attr |-> <<>>, type |-> "None", atom |-> "", err |-> "nil"]

\* last: the token handled last, the parser as it was before that token
\* (pre), the token before it and the tag stack that one met (prev), the
\* cells the token wrote, the words appendText placed, the rows handed to
\* the tabular formatter and the calls of imageToText
NoLast == [token |-> NoToken,
           writes |-> <<>>, words |-> <<>>, handed |-> <<>>, images |-> <<>>,
           pre |-> [tagStack |-> <<>>, tableStack |-> <<>>, doc |-> NewDoc, open |-> <<>>],
           prev |-> [tagStack |-> <<>>, token |-> NoToken]]

\* markup.state: "none", no table read yet; "open", between the start and the
\* end tag of an outermost table; "closed", its end tag was the last token.
\* markup.rows: the text of each cell of each row, as the text tokens gave it.
\* markup.plain: TRUE while the table is a table start, then rows that are a
\* row start and cell starts each followed by one text token (fresh: a cell
\* start still waits for its text).
NoMarkup == [rows |-> <<>>, state |-> "none", plain |-> FALSE, fresh |-> FALSE]

MarkupAfter(m, token) ==
    LET isStart == token.type \in {"StartTag", "SelfClosingTag"}
        spoilt == [m EXCEPT !.plain = FALSE]
    IN  CASE m.state # "open" ->
               IF isStart /\ token.atom = "table"
               THEN [rows |-> <<>>, state |-> "open", plain |-> TRUE, fresh |-> FALSE]
               ELSE NoMarkup
          [] m.state = "open" /\ token.type = "EndTag" /\ token.atom = "table" ->
               [m EXCEPT !.state = "closed", !.plain = m.plain /\ ~m.fresh]
          [] m.state = "open" /\ isStart /\ token.atom = "tr" ->
               IF m.fresh THEN spoilt ELSE [m EXCEPT !.rows = Append(@, <<>>)]
          [] m.state = "open" /\ isStart /\ token.atom = "td" ->
               IF m.fresh \/ m.rows = <<>> THEN spoilt
               ELSE [m EXCEPT !.rows[Len(m.rows)] = Append(@, <<>>), !.fresh = TRUE]
          [] m.state = "open" /\ token.type = "Text" ->
               IF ~m.fresh THEN spoilt
               ELSE [m EXCEPT !.rows[Len(m.rows)][Len(m.rows[Len(m.rows)])] = token.data,
                              !.fresh = FALSE]
          [] m.state = "open" /\ token.type = "EndTag" /\ token.atom \in {"tr", "td"} -> m
          [] OTHER -> spoilt

\* the tokens of <p>Hello <b>world</b></p>
Scenario ==
    <<StartTagToken("p", <<>>), TextToken(<<"H", "e", "l", "l", "o", SP>>),
      StartTagToken("b", <<>>), TextToken(<<"w", "o", "r", "l", "d">>),
      EndTagToken("b"), EndTagToken("p")>>

Init ==
    /\ tagStack = <<>>
    /\ tableStack = <<>>
    /\ doc = NewDoc
    /\ pc = "run"
    /\ ret = "none"
    /\ last = NoLast
    /\ open = <<>>
    /\ starts = <<>>
    /\ nested = TRUE
    /\ markup = NoMarkup
    /\ ntok = 0
    /\ scen = 0

\* the history of the markup's structure after one token
Track(token) ==
    /\ open' = CASE token.type = "StartTag" /\ token.atom \notin Void -> Append(open, token.atom)
                 [] token.type = "EndTag" -> CloseElem(open, token.atom)
                 [] OTHER -> open
    /\ nested' = (nested /\ (token.type = "EndTag" =>
                                starts # <<>> /\ starts[Len(starts)] = token.atom))
    /\ markup' = MarkupAfter(markup, token)
    /\ starts' = CASE ~nested' -> <<>>
                   [] token.type = "StartTag" -> Append(starts, token.atom)
                   [] token.type = "EndTag" -> SubSeq(starts, 1, Len(starts) - 1)
                   [] OTHER -> starts
    /\ scen' = IF scen >= 0 /\ scen < Len(Scenario) /\ token = Scenario[scen + 1]
               THEN scen + 1 ELSE -1

\* one turn of the loop of parse for a token that is no error token
Handle(items, token, budget) ==
    /\ pc = "run"
    /\ ntok < budget
    /\ LET p == Dispatch(Parser(tagStack, tableStack, doc), items, token)
       IN  /\ tagStack' = p.tagStack
           /\ tableStack' = p.tableStack
           /\ doc' = p.a.doc
           /\ pc' = IF p.panic \/ p.a.oob THEN "panic" ELSE "run"
           /\ last' = [token |-> token,
                       writes |-> p.a.writes, words |-> p.a.words, handed |-> p.handed,
                       images |-> p.images,
                       pre |-> [tagStack |-> tagStack, tableStack |-> tableStack, doc |-> doc,
                                open |-> open],
                       prev |-> [tagStack |-> last.pre.tagStack, token |-> last.token]]
    /\ Track(token)
    /\ ntok' = ntok + 1
    /\ UNCHANGED ret

\* the turn of the loop of parse for an error token: parse returns, and
\* parseText returns p.doc with the error
HandleError(err) ==
    /\ pc = "run"
    /\ pc' = "done"
    /\ ret' = ParseTextResult(doc, ParseErr(err))
    /\ last' = [NoLast EXCEPT !.token = ErrorToken(err),
                              !.pre = [tagStack |-> tagStack, tableStack |-> tableStack,
                                       doc |-> doc, open |-> open],
                              !.prev = [tagStack |-> last.pre.tagStack, token |-> last.token]]
    /\ UNCHANGED <<tagStack, tableStack, doc, open, starts, nested, markup, ntok, scen>>

----------------------------------------------------------------------------
(* Spec: inline markup *)

NoItems == <<>>

InlineAtoms == {"b", "i", "br", "style"}
InlineEndAtoms == {"b", "i"}
InlineTexts == {<<"a", "b">>}
Errors == {EOF, "ErrUnexpectedEOF"}

StartTag == \E a \in InlineAtoms : Handle(NoItems, StartTagToken(a, <<>>), MaxTokens)
SelfClosingTag == \E a \in {"br"} : Handle(NoItems, SelfClosingTagToken(a, <<>>), MaxTokens)
Text == \E s \in InlineTexts : Handle(NoItems, TextToken(s), MaxTokens)
EndTag == \E a \in InlineEndAtoms : Handle(NoItems, EndTagToken(a), MaxTokens)
Error == \E e \in Errors : HandleError(e)

Next == StartTag \/ SelfClosingTag \/ Text \/ EndTag \/ Error

Spec == Init /\ [][Next]_vars

----------------------------------------------------------------------------
(* SpecWrap: paragraphs, rules and text that fills rows *)

\* "abc abc ... abc", n words
RECURSIVE Sentence(_)
Sentence(n) == IF n <= 1 THEN <<"a", "b", "c">> ELSE <<"a", "b", "c", SP>> \o Sentence(n - 1)

LongWords == {Rep("w", n) : n \in DocWidth..(DocWidth + MaxOver)}

WrapTexts ==
    {<<"a">>, <<SP, "a", "b", SP, SP, "c", SP>>, <<"a", NL, "b">>, Sentence(25),
     <<"a", SP>> \o Rep("w", DocWidth + 1) \o <<SP, "b">>}
        \cup LongWords

WrapStartTag == \E a \in {"p"} : Handle(NoItems, StartTagToken(a, <<>>), MaxWrapTokens)
WrapSelfClosingTag == \E a \in {"hr"} : Handle(NoItems, SelfClosingTagToken(a, <<>>), MaxWrapTokens)
WrapText == \E s \in WrapTexts : Handle(NoItems, TextToken(s), MaxWrapTokens)
WrapError == HandleError(EOF)

NextWrap == WrapStartTag \/ WrapSelfClosingTag \/ WrapText \/ WrapError

SpecWrap == Init /\ [][NextWrap]_vars

----------------------------------------------------------------------------
(* SpecTable: tables *)

TableAtoms == {"table", "tr", "td"}
TableTexts == {<<SP, "a", SP>>, <<"b", NL>>}

TableStartTag == \E a \in TableAtoms : Handle(NoItems, StartTagToken(a, <<>>), MaxTableTokens)
TableText == \E s \in TableTexts : Handle(NoItems, TextToken(s), MaxTableTokens)
TableEndTag == \E a \in {"table"} : Handle(NoItems, EndTagToken(a), MaxTableTokens)
TableError == HandleError(EOF)

NextTable == TableStartTag \/ TableText \/ TableEndTag \/ TableError

SpecTable == Init /\ [][NextTable]_vars

----------------------------------------------------------------------------
(* SpecImage: images, in the grid and in table cells *)

\* the pixels of a resized image of 1 row, from black to white
GrayRow == [x \in 0..(ImgWidth - 1), y \in 0..0 |-> (255 * x) \div (ImgWidth - 1)]

\* the pixels of a resized image of 1 row, all white
GrayWhite == [x \in 0..(ImgWidth - 1), y \in 0..0 |-> 255]

NoPixels == <<>>

\* p.items: a resource that does not open, one that does not decode, an
\* image of 80 x 2 pixels, and a second resource with the href of the third
ImageItems ==
    <<[maxY |-> 0, maxX |-> 1, gray |-> NoPixels, opens |-> FALSE, decodes |-> FALSE,
       HREF |-> "a.png"],
      [maxY |-> 0, maxX |-> 1, gray |-> NoPixels, opens |-> TRUE, decodes |-> FALSE,
       HREF |-> "b.png"],
      [maxY |-> 2, maxX |-> 80, gray |-> GrayRow, opens |-> TRUE, decodes |-> TRUE,
       HREF |-> "c.png"],
      [maxY |-> 2, maxX |-> 80, gray |-> GrayWhite, opens |-> TRUE, decodes |-> TRUE,
       HREF |-> "c.png"]>>

Src(href) == [val |-> href, key |-> "src"]
Alt(text) == [val |-> text, key |-> "alt"]

\* the attribute lists of the img tags
ImgAttrLists ==
    {<<Src("a.png")>>, <<Src("b.png")>>, <<Src("c.png")>>,
     <<Alt(<<"x">>), Src("b.png")>>, <<Alt(<<"x">>), Src("c.png")>>}

ImageAtoms == {"table", "tr", "td"}
ImageTexts == {<<SP, "a", SP>>}

ImageStartTag ==
    \/ \E a \in ImageAtoms : Handle(ImageItems, StartTagToken(a, <<>>), MaxImageTokens)
    \/ \E attr \in ImgAttrLists : Handle(ImageItems, StartTagToken("img", attr), MaxImageTokens)
ImageSelfClosingTag ==
    \E attr \in {<<Src("c.png")>>} :
        Handle(ImageItems, SelfClosingTagToken("img", attr), MaxImageTokens)
ImageText == \E s \in ImageTexts : Handle(ImageItems, TextToken(s), MaxImageTokens)
ImageError == HandleError(EOF)

NextImage == ImageStartTag \/ ImageSelfClosingTag \/ ImageText \/ ImageError

SpecImage == Init /\ [][NextImage]_vars

----------------------------------------------------------------------------
(* SpecPara: a paragraph of plain and bold words *)

ParaAtoms == {"p", "b"}
ParaTexts == {<<"H", "e", "l", "l", "o", SP>>, <<"w", "o", "r", "l", "d">>}

ParaStartTag == \E a \in ParaAtoms : Handle(NoItems, StartTagToken(a, <<>>), MaxParaTokens)
ParaText == \E s \in ParaTexts : Handle(NoItems, TextToken(s), MaxParaTokens)
ParaEndTag == \E a \in ParaAtoms : Handle(NoItems, EndTagToken(a), MaxParaTokens)
ParaError == HandleError(EOF)

NextPara == ParaStartTag \/ ParaText \/ ParaEndTag \/ ParaError

SpecPara == Init /\ [][NextPara]_vars

----------------------------------------------------------------------------
(* SpecBlock: rules, breaks, paragraphs and style blocks, in and out of tables *)

BlockAtoms == {"b", "p", "hr", "br", "style", "table", "tr", "td"}
BlockEndAtoms == {"b", "table"}
BlockTexts == {<<SP, "a", "b", SP>>}

BlockStartTag == \E a \in BlockAtoms : Handle(NoItems, StartTagToken(a, <<>>), MaxBlockTokens)
BlockSelfClosingTag ==
    \E a \in {"hr"} : Handle(NoItems, SelfClosingTagToken(a, <<>>), MaxBlockTokens)
BlockText == \E s \in BlockTexts : Handle(NoItems, TextToken(s), MaxBlockTokens)
BlockEndTag == \E a \in BlockEndAtoms : Handle(NoItems, EndTagToken(a), MaxBlockTokens)
BlockError == HandleError(EOF)

NextBlock == BlockStartTag \/ BlockSelfClosingTag \/ BlockText \/ BlockEndTag \/ BlockError

SpecBlock == Init /\ [][NextBlock]_vars

----------------------------------------------------------------------------
(* SpecCells: setCell by itself *)

\* columns and rows setCell is called with: the first and the last column,
\* the two columns of row 12 on either side of index 1024, and row 1000
CellCols == {0, 63, 64, 79}
CellRows == {0, 12, 1000}

\* c.setCell(x, y, ch, c.fg, c.bg) on the document
SetCellCall(x, y, ch) ==
    /\ pc = "run"
    /\ ntok < MaxCellCalls
    /\ LET s == SetCell(doc, x, y, ch, doc.fg, doc.bg)
       IN  /\ doc' = s.doc
           /\ pc' = IF s.oob THEN "panic" ELSE "run"
           /\ last' = [NoLast EXCEPT !.pre.doc = doc,
                                     !.writes = <<[fg |-> doc.fg, x |-> x, y |-> y, ch |-> ch]>>]
    /\ ntok' = ntok + 1
    /\ UNCHANGED <<tagStack, tableStack, ret, open, starts, nested, markup, scen>>

NextCells == \E x \in CellCols, y \in CellRows, ch \in {"x", "y"} : SetCellCall(x, y, ch)

SpecCells == Init /\ [][NextCells]_vars

----------------------------------------------------------------------------
(* Vocabulary of the properties *)

Range(f) == {f[i] : i \in DOMAIN f}

Top(stack) == stack[Len(stack)]

BoldTags == {"b", "strong", "em"}

\* tags whose colour has the bit of yellow in it
YellowBitTags == {"i", "h1", "h2", "h3", "h4", "h5", "h6"}
ColourTags == YellowBitTags \cup {"title"}

HasBit(fg, bit) == (fg \div bit) % 2 = 1

\* the last token was a text token that wrote cells to the grid
TextWrote == last.token.type = "Text" /\ last.writes # <<>>

\* the foreground of every cell the last token wrote
WrittenFgs == {last.writes[k].fg : k \in DOMAIN last.writes}

\* bit by bit, the union of the attributes of a set of tags
UnionFg(tags) ==
    LET bits == {1, 2, 4, 8, 16, 32, 64, 128, 256, 512}
        on == {b \in bits : \E t \in tags : HasBit(TagAttr(t), b)}
        RECURSIVE Sum(_)
        Sum(S) == IF S = {} THEN 0 ELSE LET b == CHOOSE b \in S : TRUE IN b + Sum(S \ {b})
    IN  Sum(on)

----------------------------------------------------------------------------
(* C3: style union *)

\* C3, bold and italic both open: the text is written with both bits
C3_Both ==
    (TextWrote /\ Range(last.pre.tagStack) \cap BoldTags # {} /\ "i" \in Range(last.pre.tagStack))
        => \A fg \in WrittenFgs : HasBit(fg, AttrBold) /\ HasBit(fg, ColorYellow)

\* the token before the last one was the end tag of the innermost element, an
\* i, and what stays open is bold and holds no tag with a colour
ItalicJustClosed ==
    /\ last.prev.token.type = "EndTag"
    /\ last.prev.token.atom = "i"
    /\ last.prev.tagStack # <<>>
    /\ Top(last.prev.tagStack) = "i"
    /\ Range(last.pre.tagStack) \cap BoldTags # {}
    /\ Range(last.pre.tagStack) \cap ColourTags = {}

\* C3, after the end tag of the italic element: the text is written bold only
C3_AfterPop == (TextWrote /\ ItalicJustClosed) => WrittenFgs = {AttrBold}

\* C3, the pop: an end tag changes no cell written before it
C3_PopKeepsCells ==
    (last.token.type = "EndTag" /\ last.token.atom # "table")
        => doc.cells = last.pre.doc.cells

\* C3 (style union): text under an open bold tag and an open i, in either
\* order, is written with the bold bit and the yellow value; once the end tag
\* of the (innermost) i has been handled, text is written with the bold bit
\* only; the end tag leaves every cell written before it as it was.
C3_StyleUnion == C3_Both /\ C3_AfterPop /\ C3_PopKeepsCells

\* C3 witness: text written bold only, right after an i inside a b was closed,
\* with cells of the bold and yellow text still in the grid
C3_Witness ==
    /\ TextWrote /\ ItalicJustClosed
    /\ \E i \in DOMAIN doc.cells.at :
           HasBit(doc.cells.at[i].Fg, ColorYellow) /\ HasBit(doc.cells.at[i].Fg, AttrBold)

----------------------------------------------------------------------------
(* C4: an end tag with no open tag *)

\* C4: an end-tag token that meets an empty tag stack does not crash the
\* render: the loop of parse goes on.
C4_OrphanEndTagIgnored ==
    (last.token.type = "EndTag" /\ last.pre.tagStack = <<>>) => pc = "run"

----------------------------------------------------------------------------
(* C6: the tag stack and the open elements *)

\* the last token was the end tag of the innermost open element
ClosedInnermost ==
    /\ last.token.type = "EndTag"
    /\ last.pre.open # <<>>
    /\ Top(last.pre.open) = last.token.atom

\* C6: the tag stack is exactly the sequence of the elements that are open,
\* br, hr and img never being open: after the end tag of the innermost open
\* element the stack no longer holds that element's entry, and text that
\* follows an end tag is styled by the open elements alone.
C6_TagStackIsOpenElements ==
    /\ (ClosedInnermost /\ pc = "run") => tagStack = open
    /\ (TextWrote /\ last.prev.token.type = "EndTag")
           => WrittenFgs = {UnionFg(Range(open))}

----------------------------------------------------------------------------
(* C7: balance on well-formed input *)

\* C7: while the start and end tags read so far are properly nested, the tag
\* stack is the list of the start tags not yet matched (a self-closing token
\* pushes nothing), a text token is written with the union of the attributes
\* of exactly that list, and the tag stack is empty when every start tag has
\* been matched.
C7_BalancedOnWellFormed ==
    nested =>
        /\ tagStack = starts
        /\ TextWrote => WrittenFgs = {UnionFg(Range(starts))}
        /\ (pc = "done" /\ starts = <<>>) => tagStack = <<>>

\* C7 witness: a well-formed stream has ended with every tag matched, after a
\* start tag, a self-closing tag and an end tag
C7_Witness ==
    /\ pc = "done" /\ nested /\ starts = <<>> /\ last.token.err = EOF
    /\ last.prev.token.type = "EndTag"
    /\ doc.cells.at # <<>>

----------------------------------------------------------------------------
(* C8: error tokens *)

\* C8: parseText returns once the error token is read and reads no token
\* after it; it returns the parser's document as the tokens before the error
\* left it, with a nil error for io.EOF and with the tokenizer's error
\* otherwise.
C8_ErrorTokens ==
    pc = "done" =>
        /\ last.token.type = "Error"
        /\ ret.doc = doc
        /\ ret.doc = last.pre.doc
        /\ ret.err = (IF last.token.err = EOF THEN "nil" ELSE last.token.err)

\* C8 witness: a tokenizer error other than io.EOF after text was written
C8_Witness ==
    /\ pc = "done" /\ last.token.err # EOF /\ ret.err = last.token.err
    /\ ret.doc.cells.at # <<>>

----------------------------------------------------------------------------
(* C1, C2: word wrap *)

\* the positions at which a space-separated word of s starts
WordStarts(s) == {i \in DOMAIN s : s[i] # SP /\ (i = 1 \/ s[i - 1] = SP)}

\* the word of s that starts at position i
WordAt(s, i) ==
    LET j == CHOOSE j \in i..Len(s) :
                 /\ \A k \in i..j : s[k] # SP
                 /\ (j = Len(s) \/ s[j + 1] = SP)
    IN  SubSeq(s, i, j)

\* the space-separated words of s, in order
SpaceWords(s) ==
    [k \in 1..Cardinality(WordStarts(s)) |->
        WordAt(s, CHOOSE i \in WordStarts(s) :
                      Cardinality({q \in WordStarts(s) : q < i}) = k - 1)]

\* the writes of the w-th word appendText placed for the last token
WordWrites(w) == SubSeq(last.writes, last.words[w].from, last.words[w].to)

\* a word that fits in one row of the grid and holds no newline
FitsRow(word) == NL \notin Range(word) /\ Len(word) <= doc.width

\* a word longer than one row of the grid that holds no newline
Overlong(word) == NL \notin Range(word) /\ Len(word) > doc.width

\* the runes of the word, in order, at consecutive columns of one row
OnOneRow(w) ==
    LET ws == WordWrites(w)
        word == last.words[w].word
    IN  /\ Len(ws) = Len(word)
        /\ \A n \in DOMAIN ws :
               /\ ws[n].ch = word[n]
               /\ ws[n].y = ws[1].y
               /\ ws[n].x = ws[1].x + n - 1

\* C1 (no mid-word splitting): the words appendText places for a text token
\* are the space-separated words of the text, and each of them that holds no
\* newline and is at most width runes long is written on one row, at
\* consecutive columns that are all below width.
C1_NoMidWordSplit ==
    last.token.type = "Text" =>
        /\ [w \in DOMAIN last.words |-> last.words[w].word] = SpaceWords(last.token.data)
        /\ \A w \in DOMAIN last.words :
               FitsRow(last.words[w].word) =>
                   /\ OnOneRow(w)
                   /\ \A n \in DOMAIN WordWrites(w) : WordWrites(w)[n].x < doc.width

\* C1 witness: after a text token, a word of exactly width runes met the
\* cursor at a column at or past the width
C1_Witness ==
    /\ last.token.type = "Text"
    /\ \E w \in DOMAIN last.words :
           /\ Len(last.words[w].word) = doc.width
           /\ last.words[w].col >= doc.width
    /\ last.prev.token.type = "Text"

----------------------------------------------------------------------------
(* C5: table tokens without their ancestor *)

IsStart(token) == token.type \in {"StartTag", "SelfClosingTag"}

\* the last token was a row start, a cell start or a table end that met no
\* table, or a cell start that met a topmost table with no row
OrphanTableToken ==
    \/ IsStart(last.token) /\ last.token.atom = "tr" /\ last.pre.tableStack = <<>>
    \/ IsStart(last.token) /\ last.token.atom = "td" /\ last.pre.tableStack = <<>>
    \/ IsStart(last.token) /\ last.token.atom = "td" /\ last.pre.tableStack # <<>>
           /\ Top(last.pre.tableStack) = <<>>
    \/ last.token.type = "EndTag" /\ last.token.atom = "table" /\ last.pre.tableStack = <<>>

\* C5: a table token without its ancestor does not crash the render: it is
\* skipped, the table stack and the grid stay as they were, and the loop of
\* parse goes on.
C5_OrphanTableTokenIgnored ==
    OrphanTableToken =>
        /\ pc = "run"
        /\ tableStack = last.pre.tableStack
        /\ doc = last.pre.doc

----------------------------------------------------------------------------
(* C9: table round trip *)

\* s without its leading and trailing white space
Trimmed(s) ==
    LET inner == {i \in DOMAIN s : ~IsSpace(s[i])}
    IN  IF inner = {} THEN <<>>
        ELSE SubSeq(s, CHOOSE i \in inner : \A j \in inner : i <= j,
                       CHOOSE i \in inner : \A j \in inner : j <= i)

\* the rows of the markup's table, each cell trimmed
MarkupRows == [r \in DOMAIN markup.rows |->
                  [c \in DOMAIN markup.rows[r] |-> Trimmed(markup.rows[r][c])]]

\* the runes of a block that are no newline
Printed(block) == SelectSeq(block, LAMBDA r : r # NL)

\* the last token was the end tag of a plain table that no table encloses
PlainTableClosed ==
    /\ last.token.type = "EndTag" /\ last.token.atom = "table"
    /\ markup.state = "closed" /\ markup.plain
    /\ Len(last.pre.tableStack) = 1

\* C9 (table round trip): at the end tag of a plain table that no table
\* encloses, the rows handed to the tabular formatter are the rows of the
\* markup in order, each its cells in order, each cell the trimmed text of its
\* text token; the table stack is empty again, and the formatted block is
\* written to the grid from the left margin of the next row on.
C9_TableRoundTrip ==
    PlainTableClosed =>
        /\ last.handed = <<MarkupRows>>
        /\ tableStack = <<>>
        /\ [k \in DOMAIN last.writes |-> last.writes[k].ch] = Printed(Render(MarkupRows))
        /\ last.writes[1].x = doc.lmargin
        /\ last.writes[1].y = last.pre.doc.row + 1

\* C9 witness: a table of two rows whose cells differ was closed
C9_Witness ==
    /\ PlainTableClosed
    /\ Len(markup.rows) = 2
    /\ markup.rows[1] # <<>> /\ markup.rows[2] # <<>>
    /\ markup.rows[1] # markup.rows[2]
    /\ \E r \in DOMAIN markup.rows : \E c \in DOMAIN markup.rows[r] :
           Trimmed(markup.rows[r][c]) # markup.rows[r][c]

\* C9 witness, cells of one row: a row of two cells that differ was handed on
C9_WitnessRow ==
    /\ PlainTableClosed
    /\ \E r \in DOMAIN MarkupRows : Len(MarkupRows[r]) = 2 /\ MarkupRows[r][1] # MarkupRows[r][2]

----------------------------------------------------------------------------
(* C10: growth of the cell buffer *)

\* the index the last call of setCell wrote
SetIdx == last.writes[1].y * doc.width + last.writes[1].x

\* the least multiple of 1024 above idx
Chunks(idx) == GrowStep * (idx \div GrowStep + 1)

\* C10 (buffer growth): setCell never indexes outside the slice; the slice
\* grows by whole steps of 1024 cells, and no further than the index needs;
\* the cell is written, and every cell set before keeps its value at its
\* index; the length of the slice is a multiple of 1024.
C10_GrowthSafe ==
    /\ pc # "panic"
    /\ doc.cells.len % GrowStep = 0
    /\ \A i \in DOMAIN doc.cells.at : i >= 0 /\ i < doc.cells.len
    /\ last.writes # <<>> =>
           /\ doc.cells.len = (IF Chunks(SetIdx) > last.pre.doc.cells.len
                               THEN Chunks(SetIdx) ELSE last.pre.doc.cells.len)
           /\ CellAt(doc.cells, SetIdx) =
                  [Ch |-> last.writes[1].ch, Fg |-> last.writes[1].fg, Bg |-> doc.bg]
           /\ DOMAIN doc.cells.at = DOMAIN last.pre.doc.cells.at \cup {SetIdx}
           /\ \A i \in DOMAIN last.pre.doc.cells.at \ {SetIdx} :
                  CellAt(doc.cells, i) = CellAt(last.pre.doc.cells, i)

\* C10 witness: row 1000, column 79 was set in a document that held cells of
\* row 0 and row 12, which are still there
C10_Witness ==
    /\ last.writes # <<>>
    /\ last.writes[1].x = 79 /\ last.writes[1].y = 1000
    /\ doc.cells.len = 79 * GrowStep
    /\ \E i \in DOMAIN last.pre.doc.cells.at : i < GrowStep
    /\ \E i \in DOMAIN last.pre.doc.cells.at : i >= GrowStep /\ i < 2 * GrowStep

----------------------------------------------------------------------------
(* C11, C12: images *)

\* the token is the start tag (or the self-closing tag) of an image
IsImg(token) == IsStart(token) /\ token.atom = "img"

\* the positions of the attributes of a list that have the key
AttrsWith(attr, key) == {k \in DOMAIN attr : attr[k].key = key}

\* the attributes of a list other than src
WithoutSrc(attr) == SelectSeq(attr, LAMBDA a : a.key # "src")

\* the index of the first resource with the href, 0 when there is none
FirstWithHref(items, href) ==
    IF \E i \in DOMAIN items : items[i].HREF = href
    THEN CHOOSE i \in DOMAIN items :
             items[i].HREF = href /\ \A j \in 1..(i - 1) : items[j].HREF # href
    ELSE 0

\* an image token each src of which names a resource that fails to open or
\* to decode
FailedImage(token) ==
    /\ IsImg(token)
    /\ AttrsWith(token.attr, "src") # {}
    /\ \A k \in AttrsWith(token.attr, "src") :
           LET i == FirstWithHref(ImageItems, token.attr[k].val)
           IN  i # 0 /\ (~ImageItems[i].opens \/ ~ImageItems[i].decodes)

\* the parser after the last token, had that token had no src attribute
AsWithoutSrc ==
    Dispatch(Parser(last.pre.tagStack, last.pre.tableStack, last.pre.doc), ImageItems,
             [last.token EXCEPT !.attr = WithoutSrc(@)])

\* the runes of a string that appendText writes: those that are no space and
\* no newline
Inked(str) == SelectSeq(str, LAMBDA r : r # SP /\ r # NL)

\* the runes the last token wrote, in order
WrittenRunes == [k \in DOMAIN last.writes |-> last.writes[k].ch]

\* C11 (image failure is not fatal): an image token whose src names a
\* resource that fails to open or to decode gets the empty string from the
\* converter; the grid, the cursor, the tag stack and the table stack are
\* what they would be without the src attribute (untouched when there is no
\* alt text either), no error is returned and parse goes on: a text token that
\* follows is written as usual.
C11_ImageFailureNotFatal ==
    /\ FailedImage(last.token) =>
           /\ pc = "run" /\ ret = "none"
           /\ \A k \in DOMAIN last.images : last.images[k].block = <<>>
           /\ last.writes = AsWithoutSrc.a.writes
           /\ doc.cells = AsWithoutSrc.a.doc.cells
           /\ doc.col = AsWithoutSrc.a.doc.col /\ doc.row = AsWithoutSrc.a.doc.row
           /\ tagStack = AsWithoutSrc.tagStack
           /\ tableStack = AsWithoutSrc.tableStack
           /\ AttrsWith(last.token.attr, "alt") = {} =>
                  /\ last.writes = <<>>
                  /\ doc.cells = last.pre.doc.cells
                  /\ doc.col = last.pre.doc.col /\ doc.row = last.pre.doc.row
                  /\ tableStack = last.pre.tableStack
    /\ (FailedImage(last.prev.token) /\ last.token.type = "Text"
            /\ ~HasTableCell(last.pre.tableStack)) =>
           /\ pc = "run"
           /\ WrittenRunes = Inked(last.token.data)

\* C11 witness: text was written right after an image whose resource the
\* converter was called for and could not decode
C11_Witness ==
    /\ TextWrote /\ FailedImage(last.prev.token)
    /\ \E k \in AttrsWith(last.prev.token.attr, "src") : last.prev.token.attr[k].val = "b.png"
    /\ ~HasTableCell(last.pre.tableStack)

\* the text an image token adds to the focused cell: its alt texts, trimmed
RECURSIVE AltInCell(_)
AltInCell(attr) ==
    IF attr = <<>> THEN <<>>
    ELSE (IF Head(attr).key = "alt"
          THEN Trimmed(AltPrefix \o Head(attr).val \o <<NL>>) ELSE <<>>)
         \o AltInCell(Tail(attr))

\* the positions of the runes of a block that are no newline, in order
InkAt(block) == SelectSeq([i \in DOMAIN block |-> i], LAMBDA i : block[i] # NL)

\* the writes ws put the block raw from column c0 of row r0 on: rune after
\* rune at the next column, a newline moving to the left margin of the next
\* row, nothing wrapped
RawPlaced(ws, block, c0, r0) ==
    LET ink == InkAt(block)
        nls(i) == {j \in 1..(i - 1) : block[j] = NL}
        lastNl(i) == IF nls(i) = {} THEN 0 ELSE CHOOSE j \in nls(i) : \A q \in nls(i) : q <= j
    IN  /\ Len(ws) = Len(ink)
        /\ \A k \in DOMAIN ws :
               /\ ws[k].ch = block[ink[k]]
               /\ ws[k].y = r0 + Cardinality(nls(ink[k]))
               /\ ws[k].x = (IF nls(ink[k]) = {} THEN c0 ELSE doc.lmargin)
                                + (ink[k] - 1 - lastNl(ink[k]))

\* an image token with a src attribute met a focused cell
ImageInCell ==
    /\ IsImg(last.token)
    /\ AttrsWith(last.token.attr, "src") # {}
    /\ HasTableCell(last.pre.tableStack)

\* an image token whose one src attribute, its last attribute, names a
\* resource met no focused cell
ImageInGrid ==
    /\ IsImg(last.token)
    /\ Cardinality(AttrsWith(last.token.attr, "src")) = 1
    /\ Top(last.token.attr).key = "src"
    /\ FirstWithHref(ImageItems, Top(last.token.attr).val) # 0
    /\ ~HasTableCell(last.pre.tableStack)

\* C12 (images inside table cells are skipped): with a focused cell, the src
\* attribute of an image token calls the converter not at all, the grid is as
\* it was, and the focused cell gets the alt text only; with no focused cell
\* the converter is called once, for the first resource whose href is the
\* value of src, and its block is put raw into the grid at the cursor.
C12_ImagesInCellsSkipped ==
    /\ ImageInCell =>
           /\ last.images = <<>>
           /\ last.writes = <<>>
           /\ doc.cells = last.pre.doc.cells
           /\ LET tbs == last.pre.tableStack
                  t == Len(tbs)
                  r == Len(tbs[t])
              IN  tableStack =
                      [tbs EXCEPT ![t][r][Len(tbs[t][r])] = @ \o AltInCell(last.token.attr)]
    /\ ImageInGrid =>
           /\ Len(last.images) = 1
           /\ last.images[1].item = FirstWithHref(ImageItems, Top(last.token.attr).val)
           /\ tableStack = last.pre.tableStack
           /\ LET block == last.images[1].block
                  m == Len(last.writes) - Len(InkAt(block))
              IN  /\ m >= 0
                  /\ m = 0 => Len(last.token.attr) = 1
                  /\ RawPlaced(SubSeq(last.writes, m + 1, Len(last.writes)), block,
                               IF m = 0 THEN last.pre.doc.col ELSE doc.lmargin,
                               IF m = 0 THEN last.pre.doc.row ELSE last.writes[m].y + 1)

\* C12 witness: an image token with alt text and with the src of an image that
\* converts met a focused cell of a table
C12_Witness ==
    /\ ImageInCell
    /\ AttrsWith(last.token.attr, "alt") # {}
    /\ \E k \in AttrsWith(last.token.attr, "src") :
           LET i == FirstWithHref(ImageItems, last.token.attr[k].val)
           IN  i # 0 /\ ImageItems[i].opens /\ ImageItems[i].decodes
    /\ pc = "run"

----------------------------------------------------------------------------
(* C13: the scenario <p>Hello <b>world</b></p> *)

\* the runes in the cells of row 0 from column c on are those of str
RowZeroHolds(c, str) ==
    \A k \in DOMAIN str :
        (c + k - 1) \in DOMAIN doc.cells.at /\ doc.cells.at[c + k - 1].Ch = str[k]

\* C13 (scenario): once the tokens of <p>Hello <b>world</b></p> have been
\* read into the empty grid of width 80, the cells of columns 0 and 1 of row 0
\* are unwritten (the indent), "Hello" is at columns 2 to 6 without the bold
\* bit, column 7 is unwritten, "world" is at columns 8 to 12 with the bold
\* bit, and no other cell of the grid has been written.
C13_Scenario ==
    scen = Len(Scenario) =>
        /\ pc # "panic"
        /\ doc.width = 80
        /\ DOMAIN doc.cells.at = (2..6) \cup (8..12)
        /\ RowZeroHolds(2, <<"H", "e", "l", "l", "o">>)
        /\ RowZeroHolds(8, <<"w", "o", "r", "l", "d">>)
        /\ \A i \in 2..6 : ~HasBit(doc.cells.at[i].Fg, AttrBold)
        /\ \A i \in 8..12 : HasBit(doc.cells.at[i].Fg, AttrBold)
        /\ doc.row = 0
        /\ tagStack = <<>>

\* C13 witness: the six tokens of the scenario have been read, and the end of
\* the input after them
C13_Witness == scen = Len(Scenario) /\ pc = "done" /\ ret.doc = doc /\ ntok = 6

----------------------------------------------------------------------------
(* C14: the horizontal rule *)

\* the last token was the start tag (or the self-closing tag) of a horizontal
\* rule that met no focused cell
RuleInGrid ==
    /\ IsStart(last.token) /\ last.token.atom = "hr"
    /\ ~HasTableCell(last.pre.tableStack)

\* the indices of the cells of a row of the grid
RowCells(row) == {row * doc.width + c : c \in 0..(doc.width - 1)}

\* C14 (horizontal rule): with no focused cell, a horizontal rule writes '-'
\* to the columns 0 to 79 of the row of the cursor, in that order, whatever
\* the column was and whatever the grid holds: that row is then 80 times '-',
\* no cell of another row is written or changed, and the row of the cursor is
\* the same as before.
C14_HorizontalRule ==
    RuleInGrid =>
        /\ pc = "run"
        /\ doc.width = 80
        /\ Len(last.writes) = 80
        /\ \A k \in DOMAIN last.writes :
               /\ last.writes[k].ch = "-"
               /\ last.writes[k].x = k - 1
               /\ last.writes[k].y = last.pre.doc.row
        /\ \A i \in RowCells(last.pre.doc.row) :
               i < doc.cells.len /\ CellAt(doc.cells, i).Ch = "-"
        /\ \A i \in DOMAIN last.pre.doc.cells.at \ RowCells(last.pre.doc.row) :
               CellAt(doc.cells, i) = CellAt(last.pre.doc.cells, i)
        /\ DOMAIN doc.cells.at \subseteq
               DOMAIN last.pre.doc.cells.at \cup RowCells(last.pre.doc.row)
        /\ doc.row = last.pre.doc.row

\* C14 witness: the start tag of a rule came with the cursor in the middle of
\* a row below row 0, after text had been written
C14_Witness ==
    /\ RuleInGrid /\ last.token.type = "StartTag"
    /\ last.pre.doc.col > 0 /\ last.pre.doc.row > 0
    /\ last.pre.doc.cells.at # <<>>

----------------------------------------------------------------------------
(* C15: where text goes *)

\* the last token was a text token whose parent, the top of the tag stack, is
\* a style block
TextInStyle ==
    /\ last.token.type = "Text"
    /\ last.pre.tagStack # <<>> /\ Top(last.pre.tagStack) = "style"

\* the last token was a text token outside a style block that met a focused cell
TextInCell ==
    /\ last.token.type = "Text" /\ ~TextInStyle
    /\ HasTableCell(last.pre.tableStack)

\* the last token was a text token outside a style block that met no focused cell
TextInGrid ==
    /\ last.token.type = "Text" /\ ~TextInStyle
    /\ ~HasTableCell(last.pre.tableStack)

\* the table stack with str added at the end of its focused cell
WithCellText(tbs, str) ==
    LET t == Len(tbs)
        r == Len(tbs[t])
    IN  [tbs EXCEPT ![t][r][Len(tbs[t][r])] = @ \o str]

\* C15 (text routing): text outside a style block that meets a focused cell
\* is added, trimmed, to the end of that cell, every other cell, row and table
\* staying as it was, and the cells of the grid and the cursor stay as they
\* were; with no focused cell the words of the text are written into the grid
\* and the table stack stays as it was; text in a style block changes neither
\* the grid nor the table stack.
C15_TextRouting ==
    /\ TextInCell =>
           /\ tableStack = WithCellText(last.pre.tableStack, Trimmed(last.token.data))
           /\ last.writes = <<>>
           /\ doc.cells = last.pre.doc.cells
           /\ doc.col = last.pre.doc.col /\ doc.row = last.pre.doc.row
    /\ TextInGrid =>
           /\ tableStack = last.pre.tableStack
           /\ [w \in DOMAIN last.words |-> last.words[w].word] = SpaceWords(last.token.data)
           /\ WrittenRunes = Inked(last.token.data)
           /\ \A k \in DOMAIN last.writes :
                  CellAt(doc.cells, last.writes[k].y * doc.width + last.writes[k].x).Ch
                      = last.writes[k].ch
    /\ TextInStyle =>
           /\ doc = last.pre.doc
           /\ last.writes = <<>>
           /\ tableStack = last.pre.tableStack

\* C15 witness: text with spaces around it met a focused cell, which now
\* holds the text without them
C15_Witness ==
    /\ TextInCell
    /\ Trimmed(last.token.data) # last.token.data
    /\ Top(Top(Top(tableStack))) = Trimmed(last.token.data)
    /\ Top(Top(Top(tableStack))) # Top(Top(Top(last.pre.tableStack)))

----------------------------------------------------------------------------
(* C16: the end of a table *)

\* the last token was the end tag of a table that met a table stack with a frame
TableEnded ==
    /\ last.token.type = "EndTag" /\ last.token.atom = "table"
    /\ last.pre.tableStack # <<>>

\* the frames under the topmost one before the last token
FramesBelow == SubSeq(last.pre.tableStack, 1, Len(last.pre.tableStack) - 1)

\* the block the formatter makes of the frame the last token closed
ClosedBlock == Render(Top(last.pre.tableStack))

\* C16 (table end with nesting): the end tag of a table takes the topmost
\* frame, and that frame only, off the table stack and hands its rows to the
\* formatter; the block is delivered after that: into the focused cell of the
\* frame now topmost, trimmed, with the grid left alone and all other cells
\* and rows as they were, and, when the table stack is now empty, raw into the
\* grid from the left margin of the row after the row of the cursor; then the
\* tag stack is popped once.
C16_TableEnd ==
    TableEnded =>
        /\ pc = "run"
        /\ last.handed = <<Top(last.pre.tableStack)>>
        /\ Len(tableStack) = Len(last.pre.tableStack) - 1
        /\ HasTableCell(FramesBelow) =>
               /\ tableStack = WithCellText(FramesBelow, Trimmed(ClosedBlock))
               /\ last.writes = <<>>
               /\ doc.cells = last.pre.doc.cells
        /\ ~HasTableCell(FramesBelow) => tableStack = FramesBelow
        /\ FramesBelow = <<>> =>
               /\ tableStack = <<>>
               /\ RawPlaced(last.writes, ClosedBlock, doc.lmargin, last.pre.doc.row + 1)
        /\ tagStack = SubSeq(last.pre.tagStack, 1, Len(last.pre.tagStack) - 1)

\* C16 witness: the end tag of a table with a cell of text in it, inside a
\* cell of a table, which now holds the block
C16_Witness ==
    /\ TableEnded
    /\ HasTableCell(FramesBelow)
    /\ HasTableCell(last.pre.tableStack)
    /\ Top(Top(Top(last.pre.tableStack))) # <<>>
    /\ Top(Top(Top(tableStack))) # Top(Top(Top(FramesBelow)))
    /\ Len(Top(Top(Top(tableStack)))) > 4

----------------------------------------------------------------------------
(* C17: luminance to glyph *)

\* the luminances of a pixel: color.Gray.Y is a uint8
Luminances == 0..255

\* the calls of imageToText of the last token that returned a block
Converted == {k \in DOMAIN last.images : last.images[k].block # <<>>}

\* the block is h rows, each the glyphs of the 80 pixels of the row of the
\* image and one newline
GlyphBlock(block, item) ==
    LET h == (item.maxY * 80) \div (item.maxX * 2)
    IN  /\ Len(block) = 81 * h
        /\ \A y \in 0..(h - 1) :
               /\ block[81 * y + 81] = NL
               /\ \A x \in 0..79 :
                      block[81 * y + x + 1] = charGradient[(16 * item.gray[x, y]) \div 255 + 1]

\* C17 (glyph mapping): for every luminance from 0 to 255 the position in the
\* gradient is one of 0..16, an index of the 17 glyphs; it does not decrease
\* as the luminance grows; luminance 0 gives position 0, the glyph 'M', and
\* luminance 255 gives position 16, the last glyph; every block the converter
\* returns is rows of exactly 80 glyphs and one newline each, the glyphs those
\* of the pixels.
C17_GlyphMapping ==
    /\ Len(charGradient) = 17
    /\ \A L \in Luminances :
           /\ GlyphPos(L) \in 0..16
           /\ (GlyphPos(L) + 1) \in DOMAIN charGradient
           /\ L < 255 => GlyphPos(L) <= GlyphPos(L + 1)
    /\ GlyphPos(0) = 0 /\ Glyph(0) = "M"
    /\ GlyphPos(255) = 16 /\ Glyph(255) = charGradient[Len(charGradient)]
    /\ \A k \in Converted :
           GlyphBlock(last.images[k].block, ImageItems[last.images[k].item])

\* C17 witness: the converter returned a block for an image with a black and
\* a white pixel, and the grid holds the row of glyphs
C17_Witness ==
    /\ Converted # {}
    /\ \E k \in Converted :
           LET block == last.images[k].block
           IN  /\ Len(block) = 81
               /\ block[1] = "M" /\ block[80] = "." /\ block[81] = NL
               /\ \A g \in Range(charGradient) : g \in Range(block)
    /\ Len(last.writes) >= 80

----------------------------------------------------------------------------
(* C18: cells written twice *)

\* the index of the cell the k-th write of the last token went to
WriteIdx(k) == last.writes[k].y * doc.width + last.writes[k].x

\* C18: no rune is written to a cell that an earlier rune of the same render
\* was written to: the writes of a token go to cells that no earlier token
\* wrote and that differ from one another.
C18_NoCellWrittenTwice ==
    /\ \A k \in DOMAIN last.writes : WriteIdx(k) \notin DOMAIN last.pre.doc.cells.at
    /\ \A j, k \in DOMAIN last.writes : j # k => WriteIdx(j) # WriteIdx(k)

----------------------------------------------------------------------------
(* C19: the style of what is written *)

\* the tag stack when handleStartTag, handleText or handleEndTag runs for the
\* last token: a start tag has been pushed, an end tag not yet popped
StackAtWrite ==
    IF last.token.type = "StartTag"
    THEN Append(last.pre.tagStack, last.token.atom)
    ELSE last.pre.tagStack

\* C19: every cell written carries as its foreground the union of the
\* attributes of the tags on the tag stack when it is written, whether text,
\* a rule, a break or a table block writes it.
C19_StyleIsCurrent ==
    \A k \in DOMAIN last.writes : last.writes[k].fg = UnionFg(Range(StackAtWrite))

----------------------------------------------------------------------------
(* C20: the grid while a cell is focused *)

\* the last token was the end tag of a table that left the table stack empty
TableStackEmptied ==
    /\ last.token.type = "EndTag" /\ last.token.atom = "table"
    /\ tableStack = <<>>

\* C20: a token that meets a focused cell changes neither the cells of the
\* grid nor its cursor, unless it is the end tag of a table that empties the
\* table stack.
C20_GridUntouchedInCell ==
    (last.token.type \in {"StartTag", "SelfClosingTag", "Text", "EndTag"}
        /\ HasTableCell(last.pre.tableStack) /\ ~TableStackEmptied) =>
            /\ doc.cells = last.pre.doc.cells
            /\ doc.col = last.pre.doc.col
            /\ doc.row = last.pre.doc.row

====
